---- MODULE Spec2Model ----
(***************************************************************************)
(* A model of sunquakes/snowredis: the snowflake ID generator of           *)
(* snowflake/snowflake.go and snowflake/node.go, with the key-value store  *)
(* it consumes through redis.RedisClient.                                  *)
(*                                                                         *)
(* Integers.  TLC's integers are 32 bits wide, the program's are int64.    *)
(* Two program constants are therefore reduced, and nothing else is:       *)
(*   - Epoch is 1640995200000 in node.go:12.  The model measures time from *)
(*     an origin 4096 * 400633593 ms later than the program's, so that the *)
(*     model's Epoch is 1640995200000 - 4096 * 400633593 = 3072.  Every    *)
(*     clock value keeps its offset from Epoch and its residue modulo      *)
(*     4096, the two things the code computes from it.                     *)
(*   - sequenceBits is 12 in node.go:19.  The model takes it as a bound    *)
(*     (below), never smaller than 4 so that maxRetries < 2^sequenceBits   *)
(*     as in the program.  4096 in the documentation is maxSequence + 1.   *)
(* An ID is then (timestamp - Epoch) * 2^(10 + sequenceBits) + ..., which  *)
(* stays within 32 bits for the clock values the model draws.              *)
(***************************************************************************)
EXTENDS Integers, FiniteSets, Sequences, TLC

(* ------------------------------ bounds -------------------------------- *)

\* Width of the sequence field (node.go:19 has 12).
sequenceBits == 4
\* The clock reads values in Epoch .. Epoch + MaxClock.
MaxClock == 1
\* Concurrent callers (goroutines calling Generate).
NumCallers == 2
\* Strict-mode Generate calls started in one behaviour.
MaxStrictCalls == 2
\* Generate calls started in one behaviour that also builds the generators.
MaxBuildCalls == 2
\* Generate calls started in one behaviour of builders of every configuration.
MaxCallsAfterBuild == 1
\* Claim records that expire in one behaviour.
MaxExpire == 1

\* While a call may be waiting, the clock reads up to Epoch + MaxWaitClock.
MaxWaitClock == 2

\* The allocation counters of the store stop at this value.
MaxCounter == 33

(* ------------------------- program constants -------------------------- *)

Epoch == 3072
datacenterBits == 5
workerBits == 5
maxRetries == 10
DefaultDatacenterID == 1
DefaultWorkerID == 1
ZeroValue == 0
MaxDatacenterIDPlusOne == 32
MaxWorkerIDPlusOne == 32

\* 2^n, for n >= 0.
RECURSIVE Pow2(_)
Pow2(n) == IF n = 0 THEN 1 ELSE 2 * Pow2(n - 1)

\* x << n on a two's-complement integer (no bit is shifted out here).
Shl(x, n) == x * Pow2(n)

\* x >> n, Go's arithmetic shift: the floor of x / 2^n.
Shr(x, n) == x \div Pow2(n)

\* a | b on two's-complement integers of unbounded width.  The operands are
\* bound as x and y, so that each is evaluated once.
RECURSIVE BitOr(_, _)
BitOr(a, b) ==
    CHOOSE r \in
        {IF x = 0 THEN y
         ELSE IF y = 0 THEN x
         ELSE IF x = -1 \/ y = -1 THEN -1
         ELSE (IF x % 2 = 1 \/ y % 2 = 1 THEN 1 ELSE 0)
                + 2 * BitOr(x \div 2, y \div 2) : x \in {a}, y \in {b}} : TRUE

\* a & b on two's-complement integers of unbounded width, the operands
\* bound in the same way.
RECURSIVE BitAnd(_, _)
BitAnd(a, b) ==
    CHOOSE r \in
        {IF x = 0 \/ y = 0 THEN 0
         ELSE IF x = -1 THEN y
         ELSE IF y = -1 THEN x
         ELSE (IF x % 2 = 1 /\ y % 2 = 1 THEN 1 ELSE 0)
                + 2 * BitAnd(x \div 2, y \div 2) : x \in {a}, y \in {b}} : TRUE

\* -1 ^ (-1 << bits): the low `bits` bits set.
LowMask(bits) == Pow2(bits) - 1

maxDatacenterID == LowMask(datacenterBits)
maxWorkerID == LowMask(workerBits)
maxSequence == LowMask(sequenceBits)

\* A worker field that starts one bit too low, inside the sequence field.
workerShiftOverlapping == sequenceBits - 1

workerShift == sequenceBits
datacenterShift == sequenceBits + workerBits
timestampShift == sequenceBits + workerBits + datacenterBits

(* ------------------------------- state -------------------------------- *)

Gens == 1 .. 2
Callers == 1 .. NumCallers
ClockValues == Epoch .. (Epoch + MaxClock)

VARIABLES
    clock,        \* what currentTimeMillis() returns now
    alive,        \* the generators that Build has returned
    node,         \* node[g]: datacenterID, workerID, sequence, lastTimestamp
    strictMode,   \* strictMode[g]: RedisSnowflake.strictMode
    redisClient,  \* redisClient[g]: RedisSnowflake.redisClient is not nil
    mutex,        \* mutex[g]: the caller holding node[g]'s lock, or 0
    pc,           \* pc[c]: where caller c is in Generate
    rs,           \* rs[c]: the generator caller c is calling
    timestamp,    \* timestamp[c]: the local variable of the same name
    attempt,      \* attempt[c]: the loop counter of generateWithRedisAssistance
    id,           \* id[c]: the candidate of the current attempt
    reply,        \* reply[c]: what SetNX returned to c
    sleeps,       \* sleeps[c]: time.Sleep calls of c's current call
    claims,       \* the store: the IDs whose key snowflake:id:<id> exists,
                  \* oldest record first
    event,        \* the most recent return of a Generate call
    lastId,       \* lastId[g]: the ID g's previous successful call returned
    minted,       \* minted[g]: IDs g issued carrying node[g].lastTimestamp
    seen,         \* one earlier returned ID, remembered at an arbitrary moment
    dup,          \* a later successful call returned the remembered ID
    budget,       \* Generate calls that may still start (-1: any number)
    gone,         \* the IDs whose claim record has expired
    builder,      \* builder[g]: the Build call that makes generator g, the
                  \* only one for g
    counters      \* the store: the values under snowflake:next_datacenter_id
                  \* and snowflake:next_worker_id (0: the key is absent)

genVars == <<alive, node, strictMode, redisClient>>
localVars == <<mutex, timestamp>>
strictVars == <<attempt, id, reply, sleeps>>
histVars == <<event, lastId, minted, dup>>
buildVars == <<builder, counters>>
vars == <<clock, alive, node, strictMode, redisClient, mutex, pc, rs,
          timestamp, attempt, id, reply, sleeps, claims, event, lastId,
          minted, seen, dup, budget, gone, builder, counters>>

NoId == -1
NoBuilder == [pc |-> "none", datacenterID |-> 0, workerID |-> 0,
              client |-> FALSE, strictMode |-> FALSE, allocated |-> 0,
              raw |-> 0]
NoEvent == [kind |-> "none", gen |-> 0, id |-> 0, timestamp |-> 0,
            sequence |-> 0, attempts |-> 0, sleeps |-> 0]

\* NewNode on valid ids: sequence and lastTimestamp start at 0.
NewNode(datacenterID, workerID) ==
    [datacenterID |-> datacenterID, workerID |-> workerID,
     sequence |-> 0, lastTimestamp |-> 0]

\* An ID without its timestamp field.
ComposeIdWithoutTimestamp(ts, datacenterID, workerID, sequence) ==
    BitOr(BitOr(Shl(datacenterID, datacenterShift),
                Shl(workerID, workerShift)),
          sequence)

\* An ID with the datacenter id in the worker field and the worker id in the
\* datacenter field.
ComposeIdSwapped(ts, datacenterID, workerID, sequence) ==
    BitOr(BitOr(BitOr(Shl(ts - Epoch, timestampShift),
                      Shl(workerID, datacenterShift)),
                Shl(datacenterID, workerShift)),
          sequence)

\* An ID without its worker field.
ComposeIdWithoutWorker(ts, datacenterID, workerID, sequence) ==
    BitOr(BitOr(Shl(ts - Epoch, timestampShift),
                Shl(datacenterID, datacenterShift)),
          sequence)

\* The ID composed from a timestamp, an identity and a sequence field.
ComposeId(ts, datacenterID, workerID, sequence) ==
    BitOr(BitOr(BitOr(Shl(ts - Epoch, timestampShift),
                      Shl(datacenterID, datacenterShift)),
                Shl(workerID, workerShift)),
          sequence)

\* A Generate that never takes the strict path.
NeverAssisted(g) == FALSE

\* A Generate that takes the strict path whenever a client is set.
ClientOnly(g) == redisClient[g]

\* A Generate that looks at strict mode only.
StrictModeOnly(g) == strictMode[g]

\* Generate takes the strict path iff strict mode is on and a client is set.
UsesRedisAssistance(g) == strictMode[g] /\ redisClient[g]

(* -------------------------------- clock ------------------------------- *)

\* The wall clock advances by a millisecond.
Tick ==
    /\ clock < Epoch + MaxClock
    /\ clock' = clock + 1
    /\ UNCHANGED <<buildVars, genVars, localVars, strictVars, histVars, pc, rs,
                   claims, seen, budget, gone>>

\* The clock advances by a millisecond, one value past those it is set back
\* to.
TickPast ==
    /\ clock < Epoch + MaxWaitClock
    /\ clock' = clock + 1
    /\ UNCHANGED <<buildVars, genVars, localVars, strictVars, histVars, pc, rs,
                   claims, seen, budget, gone>>

\* The wall clock is set back (NTP correction, VM pause).
Rollback ==
    /\ \E t \in ClockValues : t < clock /\ clock' = t
    /\ UNCHANGED <<buildVars, genVars, localVars, strictVars, histVars, pc, rs,
                   claims, seen, budget, gone>>

(* --------------------------- Generate: entry --------------------------- *)

\* Generate (snowflake.go:212-220): the one branch on the mode.  A caller that
\* is not inside a call starts one on a generator that Build returned.
Generate(c, g) ==
    /\ pc[c] = "idle"
    /\ g \in alive
    /\ budget # 0
    /\ budget' = IF budget > 0 THEN budget - 1 ELSE budget
    /\ rs' = [rs EXCEPT ![c] = g]
    /\ pc' = [pc EXCEPT ![c] = IF UsesRedisAssistance(g) THEN "attempt"
                                                         ELSE "lock"]
    /\ UNCHANGED <<buildVars, clock, genVars, localVars, strictVars, histVars,
                   claims, seen, gone>>

(* ------------------------- generateLocally ----------------------------- *)

\* A Lock that does not wait for the mutex: what generateLocally would be
\* without mutual exclusion.
LockNoWait(c) ==
    /\ pc[c] = "lock"
    /\ mutex' = [mutex EXCEPT ![rs[c]] = c]
    /\ pc' = [pc EXCEPT ![c] = "read"]
    /\ UNCHANGED <<buildVars, clock, genVars, timestamp, strictVars, histVars,
                   rs, claims, seen, budget, gone>>

\* rs.node.Lock(): blocks until the node's mutex is free.
Lock(c) ==
    /\ pc[c] = "lock"
    /\ mutex[rs[c]] = 0
    /\ mutex' = [mutex EXCEPT ![rs[c]] = c]
    /\ pc' = [pc EXCEPT ![c] = "read"]
    /\ UNCHANGED <<buildVars, clock, genVars, timestamp, strictVars, histVars,
                   rs, claims, seen, budget, gone>>

\* The deferred rs.node.Unlock(), run when generateLocally returns.
Unlock(g) == [mutex EXCEPT ![g] = 0]

\* timestamp := currentTimeMillis() (snowflake.go:136).
ReadClock(c) ==
    /\ pc[c] = "read"
    /\ timestamp' = [timestamp EXCEPT ![c] = clock]
    /\ pc' = [pc EXCEPT ![c] = "check"]
    /\ UNCHANGED <<buildVars, clock, genVars, mutex, strictVars, histVars, rs,
                   claims, seen, budget, gone>>

\* A rollback check that never fires.
NeverRolledBack(ts, last) == FALSE

\* A rollback check that also fires when the clock has not moved.
ClockNotAdvanced(ts, last) == ts <= last

\* timestamp < rs.node.lastTimestamp: the clock went back.
ClockRolledBack(ts, last) == ts < last

\* A sequence update that takes every call for the first of its millisecond.
NeverSameMillisecond(ts, last) == FALSE

\* rs.node.lastTimestamp == timestamp: another ID in the same millisecond.
SameMillisecond(ts, last) == last = ts

\* A sequence that counts down instead of up.
PreviousSequence(sequence) == BitAnd(sequence - 1, maxSequence)

\* A sequence that goes on counting past the width of its field.
NextSequenceUnmasked(sequence) == sequence + 1

\* (rs.node.sequence + 1) & maxSequence
NextSequence(sequence) == BitAnd(sequence + 1, maxSequence)

\* A wait loop that never waits.
NeverWait(ts, last) == FALSE

\* A wait loop that never ends.
AlwaysWait(ts, last) == TRUE

\* A wait loop that ends as soon as the clock reads another millisecond.
WaitsWhileSame(ts, last) == ts = last

\* The condition of the wait loop: for timestamp <= rs.node.lastTimestamp.
MustWait(ts, last) == ts <= last

\* The rollback check and the sequence update (snowflake.go:138-155).
CheckClock(c) ==
    /\ pc[c] = "check"
    /\ LET g == rs[c]
           ts == timestamp[c]
           last == node[g].lastTimestamp
       IN  IF ClockRolledBack(ts, last)
           THEN /\ event' = [NoEvent EXCEPT !.kind = "rollback", !.gen = g]
                /\ mutex' = Unlock(g)
                /\ pc' = [pc EXCEPT ![c] = "idle"]
                /\ rs' = [rs EXCEPT ![c] = 1]
                /\ timestamp' = [timestamp EXCEPT ![c] = 0]
                /\ UNCHANGED node
           ELSE IF SameMillisecond(ts, last)
           THEN /\ node' = [node EXCEPT
                              ![g].sequence = NextSequence(node[g].sequence)]
                /\ pc' = [pc EXCEPT
                            ![c] = IF NextSequence(node[g].sequence) = 0
                                   THEN "spin" ELSE "compose"]
                /\ UNCHANGED <<event, mutex, rs, timestamp>>
           ELSE /\ node' = [node EXCEPT ![g].sequence = 0]
                /\ pc' = [pc EXCEPT ![c] = "compose"]
                /\ UNCHANGED <<event, mutex, rs, timestamp>>
    /\ UNCHANGED <<buildVars, clock, alive, strictMode, redisClient,
                   strictVars, lastId, minted, dup, claims, seen, budget,
                   gone>>

\* One turn of the wait loop (snowflake.go:148-150): read the clock again; the
\* loop ends once timestamp exceeds lastTimestamp.
Spin(c) ==
    /\ pc[c] = "spin"
    /\ timestamp' = [timestamp EXCEPT ![c] = clock]
    /\ pc' = [pc EXCEPT
                ![c] = IF MustWait(clock, node[rs[c]].lastTimestamp)
                       THEN "spin" ELSE "compose"]
    /\ UNCHANGED <<buildVars, clock, genVars, mutex, strictVars, histVars, rs,
                   claims, seen, budget, gone>>

\* rs.node.lastTimestamp = timestamp, the ID and the return
\* (snowflake.go:157-165).
Compose(c) ==
    /\ pc[c] = "compose"
    /\ LET g == rs[c]
           ts == timestamp[c]
           new == ComposeId(ts, node[g].datacenterID, node[g].workerID,
                            node[g].sequence)
       IN  /\ node' = [node EXCEPT ![g].lastTimestamp = ts]
           /\ event' = [NoEvent EXCEPT !.kind = "id", !.gen = g, !.id = new,
                           !.timestamp = ts, !.sequence = node[g].sequence]
           /\ lastId' = [lastId EXCEPT ![g] = new]
           /\ minted' = [minted EXCEPT
                           ![g] = IF ts = node[g].lastTimestamp THEN @ + 1
                                                                ELSE 1]
           /\ dup' = (dup \/ new = seen)
           /\ mutex' = Unlock(g)
    /\ pc' = [pc EXCEPT ![c] = "idle"]
    /\ rs' = [rs EXCEPT ![c] = 1]
    /\ timestamp' = [timestamp EXCEPT ![c] = 0]
    /\ UNCHANGED <<buildVars, clock, alive, strictMode, redisClient,
                   strictVars, claims, seen, budget, gone>>

(* -------------------- generateWithRedisAssistance ---------------------- *)

\* A candidate whose sequence field ignores the attempt number.
StrictSequenceOfClock(ts, a) == BitAnd(ts, maxSequence)

\* The sequence field of a strict-mode candidate: (timestamp + attempt) &
\* maxSequence.
StrictSequence(ts, a) == BitAnd(ts + a, maxSequence)

\* The IDs that have a claim record.
Claimed == {claims[i] : i \in 1 .. Len(claims)}

\* A store that grants every claim.
AlwaysSet(key) == TRUE

\* SetNX on an atomic store: the key is created iff it was absent.
SetNX(key) == key \notin Claimed

\* The first half of a turn of the retry loop (snowflake.go:177-187): read the
\* clock, compose the candidate, call SetNX.  The store creates the record,
\* refuses, or fails.
Claim(c) ==
    /\ pc[c] = "attempt"
    /\ LET g == rs[c]
           new == ComposeId(clock, node[g].datacenterID, node[g].workerID,
                            StrictSequence(clock, attempt[c]))
       IN  /\ timestamp' = [timestamp EXCEPT ![c] = clock]
           /\ id' = [id EXCEPT ![c] = new]
           /\ \E err \in BOOLEAN :
                IF err
                THEN /\ reply' = [reply EXCEPT ![c] = "error"]
                     /\ UNCHANGED claims
                ELSE IF SetNX(new)
                THEN /\ reply' = [reply EXCEPT ![c] = "set"]
                     /\ claims' = Append(claims, new)
                ELSE /\ reply' = [reply EXCEPT ![c] = "exists"]
                     /\ UNCHANGED claims
    /\ pc' = [pc EXCEPT ![c] = "reply"]
    /\ UNCHANGED <<buildVars, clock, genVars, mutex, attempt, sleeps, histVars,
                   rs, seen, budget, gone>>

\* A call that sleeps after every refused attempt, the last included.
SleepsAlways(a) == TRUE

\* attempt < maxRetries-1: sleep before the next attempt.
SleepsAfter(a) == a < maxRetries - 1

\* A loop that takes one turn more.
LoopContinuesOneMore(a) == a <= maxRetries

\* attempt < maxRetries: the loop takes another turn.
LoopContinues(a) == a < maxRetries

\* A call that takes an error of the store for a refusal.
NeverFailed(r) == FALSE

\* err != nil after SetNX.
StoreFailed(r) == r = "error"

\* generateWithRedisAssistance returns: the locals of the call are gone.
StrictReturn(c) ==
    /\ pc' = [pc EXCEPT ![c] = "idle"]
    /\ rs' = [rs EXCEPT ![c] = 1]
    /\ timestamp' = [timestamp EXCEPT ![c] = 0]
    /\ attempt' = [attempt EXCEPT ![c] = 0]
    /\ id' = [id EXCEPT ![c] = 0]
    /\ reply' = [reply EXCEPT ![c] = "none"]
    /\ sleeps' = [sleeps EXCEPT ![c] = 0]

\* The second half of the turn (snowflake.go:188-204): an error ends the call,
\* a created record returns the candidate, a refusal sleeps (unless it was the
\* last attempt) and then the loop goes on or, being over, the call fails.
Handle(c) ==
    /\ pc[c] = "reply"
    /\ LET g == rs[c]
           made == [NoEvent EXCEPT !.gen = g, !.attempts = attempt[c] + 1,
                                   !.sleeps = sleeps[c]]
           slept == IF SleepsAfter(attempt[c]) THEN sleeps[c] + 1
                                               ELSE sleeps[c]
       IN  IF StoreFailed(reply[c])
           THEN /\ event' = [made EXCEPT !.kind = "storeerror"]
                /\ StrictReturn(c)
                /\ UNCHANGED dup
           ELSE IF reply[c] = "set"
           THEN /\ event' = [made EXCEPT !.kind = "id", !.id = id[c],
                                !.timestamp = timestamp[c],
                                !.sequence =
                                    StrictSequence(timestamp[c], attempt[c])]
                /\ dup' = (dup \/ id[c] = seen)
                /\ StrictReturn(c)
           ELSE IF LoopContinues(attempt[c] + 1)
           THEN /\ sleeps' = [sleeps EXCEPT ![c] = slept]
                /\ attempt' = [attempt EXCEPT ![c] = @ + 1]
                /\ pc' = [pc EXCEPT ![c] = "attempt"]
                /\ reply' = [reply EXCEPT ![c] = "none"]
                /\ UNCHANGED <<event, dup, rs, timestamp, id>>
           ELSE /\ event' = [made EXCEPT !.kind = "exhausted",
                                         !.sleeps = slept]
                /\ StrictReturn(c)
                /\ UNCHANGED dup
    /\ UNCHANGED <<buildVars, clock, genVars, mutex, claims, lastId, minted,
                   seen, budget, gone>>

\* The store drops a claim record whose expiration has passed.  Every record
\* is created with the same expiration (time.Hour), so the oldest goes first.
Expire ==
    /\ Cardinality(gone) < MaxExpire
    /\ claims # << >>
    /\ claims' = Tail(claims)
    /\ gone' = gone \cup {Head(claims)}
    /\ UNCHANGED <<buildVars, clock, genVars, localVars, strictVars, histVars,
                   pc, rs, seen, budget>>

(* ------------------------------- Cleanup ------------------------------- *)

\* A Cleanup that deletes the claim records of the store.
CleanupStore == << >>

\* What Cleanup leaves in the store: its body is empty (snowflake.go:225-228),
\* the records are as they were.
CleanupKeeps == claims

\* Cleanup on a generator that Build returned, at any moment, calls in
\* progress or not.  Only the record of the most recent return notes it.
Cleanup(g) ==
    /\ g \in alive
    /\ claims' = CleanupKeeps
    /\ event' = [NoEvent EXCEPT !.kind = "cleanup", !.gen = g]
    /\ UNCHANGED <<buildVars, clock, genVars, localVars, strictVars, lastId,
                   minted, dup, pc, rs, seen, budget, gone>>

(* -------------------------------- Build -------------------------------- *)

\* A configuration that allocates whenever a client is set.
determineConfigurationClientFirst(b) ==
    IF b.client
    THEN <<ZeroValue, ZeroValue, TRUE>>
    ELSE IF b.datacenterID # ZeroValue /\ b.workerID # ZeroValue
    THEN <<b.datacenterID, b.workerID, FALSE>>
    ELSE <<DefaultDatacenterID, DefaultWorkerID, FALSE>>

\* A configuration whose default ids are the zero values.
determineConfigurationZeroDefault(b) ==
    IF b.datacenterID # ZeroValue /\ b.workerID # ZeroValue
    THEN <<b.datacenterID, b.workerID, FALSE>>
    ELSE IF b.client
    THEN <<ZeroValue, ZeroValue, TRUE>>
    ELSE <<ZeroValue, ZeroValue, FALSE>>

\* A configuration that takes the manual ids as soon as one of them is set.
determineConfigurationEitherId(b) ==
    IF b.datacenterID # ZeroValue \/ b.workerID # ZeroValue
    THEN <<b.datacenterID, b.workerID, FALSE>>
    ELSE IF b.client
    THEN <<ZeroValue, ZeroValue, TRUE>>
    ELSE <<DefaultDatacenterID, DefaultWorkerID, FALSE>>

\* determineConfiguration: the ids to use and whether to allocate them from
\* the store.  Manual ids count only when both are non-zero.
determineConfiguration(b) ==
    IF b.datacenterID # ZeroValue /\ b.workerID # ZeroValue
    THEN <<b.datacenterID, b.workerID, FALSE>>
    ELSE IF b.client
    THEN <<ZeroValue, ZeroValue, TRUE>>
    ELSE <<DefaultDatacenterID, DefaultWorkerID, FALSE>>

\* Range checks that forget the lower end.
NodeErrorAboveOnly(datacenterID, workerID) ==
    IF datacenterID > maxDatacenterID
    THEN "invaliddatacenter"
    ELSE IF workerID > maxWorkerID
    THEN "invalidworker"
    ELSE "none"

\* The error NewNode returns for a pair of ids ("none": it makes the node).
NodeError(datacenterID, workerID) ==
    IF datacenterID < 0 \/ datacenterID > maxDatacenterID
    THEN "invaliddatacenter"
    ELSE IF workerID < 0 \/ workerID > maxWorkerID
    THEN "invalidworker"
    ELSE "none"

\* createInstance: Build returns generator g with a new node, the client and
\* the builder's strict mode, or it returns NewNode's error.
createInstance(g, datacenterID, workerID, client, strict) ==
    /\ builder' = [builder EXCEPT ![g] = [NoBuilder EXCEPT !.pc = "done"]]
    /\ IF NodeError(datacenterID, workerID) = "none"
       THEN /\ alive' = alive \cup {g}
            /\ node' = [node EXCEPT ![g] = NewNode(datacenterID, workerID)]
            /\ redisClient' = [redisClient EXCEPT ![g] = client]
            /\ strictMode' = [strictMode EXCEPT ![g] = strict]
            /\ event' = [NoEvent EXCEPT !.kind = "built", !.gen = g]
       ELSE /\ event' = [NoEvent EXCEPT
                           !.kind = NodeError(datacenterID, workerID),
                           !.gen = g]
            /\ UNCHANGED genVars

\* NewBuilder and its setters (snowflake.go:44-86): a builder with the given
\* ids, client and strict mode; a field that is not set keeps its zero value.
Configure(g, datacenterID, workerID, client, strict) ==
    /\ g \notin alive
    /\ builder[g].pc = "none"
    /\ builder' = [builder EXCEPT
                     ![g] = [NoBuilder EXCEPT !.pc = "configured",
                                              !.datacenterID = datacenterID,
                                              !.workerID = workerID,
                                              !.client = client,
                                              !.strictMode = strict]]
    /\ UNCHANGED <<clock, counters, genVars, localVars, strictVars, histVars,
                   pc, rs, claims, seen, budget, gone>>

\* Build, up to the first call to the store.
Build(g) ==
    /\ builder[g].pc = "configured"
    /\ LET b == builder[g]
           cfg == determineConfiguration(b)
       IN  IF cfg[3]
           THEN /\ builder' = [builder EXCEPT ![g].pc = "datacenter"]
                /\ UNCHANGED <<genVars, event>>
           ELSE createInstance(g, cfg[1], cfg[2], b.client, b.strictMode)
    /\ UNCHANGED <<clock, counters, localVars, strictVars, lastId, minted, dup,
                   pc, rs, claims, seen, budget, gone>>

\* Incr on a counter of the store: an absent key counts as 0.
Incr(value) == value + 1

\* A datacenter id reduced modulo the highest id instead of the number of ids.
LimitDatacenterToMax(raw) == raw % maxDatacenterID

\* datacenterID % MaxDatacenterIDPlusOne (snowflake.go:292).
LimitDatacenter(raw) == raw % MaxDatacenterIDPlusOne

\* A worker id reduced modulo the highest id instead of the number of ids.
LimitWorkerToMax(raw) == raw % maxWorkerID

\* workerID % MaxWorkerIDPlusOne (snowflake.go:299).
LimitWorker(raw) == raw % MaxWorkerIDPlusOne

\* A Build that answers an error of the store with the default identity.
AllocationFallsBack(g) ==
    /\ createInstance(g, DefaultDatacenterID, DefaultWorkerID,
                      builder[g].client, builder[g].strictMode)
    /\ UNCHANGED counters

\* Build fails on an error of the store and returns no generator.
AllocationFails(g) ==
    /\ builder' = [builder EXCEPT ![g] = [NoBuilder EXCEPT !.pc = "done"]]
    /\ event' = [NoEvent EXCEPT !.kind = "allocerror", !.gen = g]
    /\ UNCHANGED <<genVars, counters>>

\* createRedisAllocatedInstance, the datacenter id (snowflake.go:287-292).
IncrDatacenter(g) ==
    /\ builder[g].pc = "datacenter"
    /\ \/ AllocationFails(g)
       \/ /\ counters.datacenter < MaxCounter
          /\ counters' = [counters EXCEPT !.datacenter = Incr(@)]
          /\ builder' = [builder EXCEPT
                           ![g].raw = Incr(counters.datacenter),
                           ![g].allocated =
                               LimitDatacenter(Incr(counters.datacenter)),
                           ![g].pc = "worker"]
          /\ UNCHANGED <<genVars, event>>
    /\ UNCHANGED <<clock, localVars, strictVars, lastId, minted, dup, pc, rs,
                   claims, seen, budget, gone>>

\* createRedisAllocatedInstance, the worker id and the generator
\* (snowflake.go:294-301).
IncrWorker(g) ==
    /\ builder[g].pc = "worker"
    /\ \/ AllocationFails(g)
       \/ /\ counters.worker < MaxCounter
          /\ counters' = [counters EXCEPT !.worker = Incr(@)]
          /\ createInstance(g, builder[g].allocated,
                            LimitWorker(Incr(counters.worker)),
                            builder[g].client, builder[g].strictMode)
    /\ UNCHANGED <<clock, localVars, strictVars, lastId, minted, dup, pc, rs,
                   claims, seen, budget, gone>>

\* Other processes build n generators by allocation from the same store.
OtherNodes(n) ==
    /\ counters.datacenter + n <= MaxCounter
    /\ counters.worker + n <= MaxCounter
    /\ counters' = [datacenter |-> counters.datacenter + n,
                    worker |-> counters.worker + n]
    /\ UNCHANGED <<clock, builder, genVars, localVars, strictVars, histVars,
                   pc, rs, claims, seen, budget, gone>>

\* No Build of this process is between its first step and its return.
NoBuildRunning ==
    \A h \in Gens : builder[h].pc \notin {"datacenter", "worker"}

\* Build, started while no other Build is running.
BuildAlone(g) == NoBuildRunning /\ Build(g)

\* The first Incr of an allocating Build, returning without error.
IncrDatacenterSucceeds(g) == IncrDatacenter(g) /\ builder'[g].pc = "worker"

\* The second Incr of an allocating Build, returning without error.
IncrWorkerSucceeds(g) == IncrWorker(g) /\ g \in alive'

\* One whole allocating Build of another process, while no Build is running.
OtherBuild == NoBuildRunning /\ OtherNodes(1)

(* ------------------------------ history -------------------------------- *)

\* Remember the ID just returned, once, to compare later returns with it.
Remember ==
    /\ seen = NoId
    /\ event.kind = "id"
    /\ seen' = event.id
    /\ UNCHANGED <<buildVars, clock, genVars, localVars, strictVars, histVars,
                   pc, rs, claims, budget, gone>>

\* Remember an ID that generator 1 has just returned.
RememberFirst == event.gen = 1 /\ Remember

(* --------------------------- specifications ---------------------------- *)

\* Identities a generator is built with: the default one and a second one
\* with high bits set in both fields.
Identities == {<<1, 1>>, <<31, 30>>}

\* Every key a generator of identity (1, 1) asks for while the clock reads
\* Epoch is taken: another process of that identity issued them.
Contended ==
    [a \in 1 .. maxRetries |->
        ComposeId(Epoch, 1, 1, StrictSequence(Epoch, a - 1))]

InitCallers ==
    /\ clock \in ClockValues
    /\ mutex = [g \in Gens |-> 0]
    /\ pc = [c \in Callers |-> "idle"]
    /\ rs = [c \in Callers |-> 1]
    /\ timestamp = [c \in Callers |-> 0]
    /\ attempt = [c \in Callers |-> 0]
    /\ id = [c \in Callers |-> 0]
    /\ reply = [c \in Callers |-> "none"]
    /\ sleeps = [c \in Callers |-> 0]
    /\ event = NoEvent
    /\ lastId = [g \in Gens |-> NoId]
    /\ minted = [g \in Gens |-> 0]
    /\ seen = NoId
    /\ dup = FALSE
    /\ gone = {}
    /\ builder = [g \in Gens |-> NoBuilder]
    /\ counters = [datacenter |-> 0, worker |-> 0]

\* One generator, built in a configuration that generates locally.
InitLocal ==
    /\ InitCallers
    /\ alive = {1}
    /\ \E i \in Identities :
         node = [g \in Gens |-> IF g = 1 THEN NewNode(i[1], i[2])
                                         ELSE NewNode(0, 0)]
    /\ \E s, r \in BOOLEAN :
         /\ ~(s /\ r)
         /\ strictMode = [g \in Gens |-> s]
         /\ redisClient = [g \in Gens |-> r]
    /\ claims = << >>
    /\ budget = -1

\* Two generators in strict mode sharing one store, of equal or different
\* identities.  The store is empty, or it is contended and one call meets it.
InitStrict ==
    /\ InitCallers
    /\ alive = {1, 2}
    /\ \E i \in Identities :
         node = [g \in Gens |-> IF g = 1 THEN NewNode(1, 1)
                                         ELSE NewNode(i[1], i[2])]
    /\ strictMode = [g \in Gens |-> TRUE]
    /\ redisClient = [g \in Gens |-> TRUE]
    /\ \/ claims = << >> /\ budget = MaxStrictCalls
       \/ claims = Contended /\ budget = 1

NextLocal ==
    \/ Tick
    \/ Rollback
    \/ \E c \in Callers, g \in Gens : Generate(c, g)
    \/ \E c \in Callers : Lock(c)
    \/ \E c \in Callers : ReadClock(c)
    \/ \E c \in Callers : CheckClock(c)
    \/ \E c \in Callers : Spin(c)
    \/ \E c \in Callers : Compose(c)

NextStrict ==
    \/ Tick
    \/ Rollback
    \/ \E c \in Callers, g \in Gens : Generate(c, g)
    \/ \E c \in Callers : Claim(c)
    \/ \E c \in Callers : Handle(c)
    \/ Expire

Next ==
    \/ Tick
    \/ Rollback
    \/ \E c \in Callers, g \in Gens : Generate(c, g)
    \/ \E c \in Callers : Lock(c)
    \/ \E c \in Callers : ReadClock(c)
    \/ \E c \in Callers : CheckClock(c)
    \/ \E c \in Callers : Spin(c)
    \/ \E c \in Callers : Compose(c)
    \/ \E c \in Callers : Claim(c)
    \/ \E c \in Callers : Handle(c)

Init == InitLocal \/ InitStrict

\* Generation in either mode, while no claim record expires.
Spec == Init /\ [][Next]_vars

\* Local generation on one generator.
SpecLocal == InitLocal /\ [][NextLocal]_vars

\* One generator of the default identity, without strict mode or client.
InitLocalUnique ==
    /\ InitLocal
    /\ ~strictMode[1]
    /\ ~redisClient[1]
    /\ node[1] = NewNode(DefaultDatacenterID, DefaultWorkerID)

\* Local generation on that generator, with one returned ID remembered.
SpecLocalUnique == InitLocalUnique /\ [][NextLocal \/ Remember]_vars

\* Local generation under a clock that never goes back.  The clock advances
\* when it advances: nothing obliges it to.
NextLocalFair ==
    \/ Tick
    \/ \E c \in Callers, g \in Gens : Generate(c, g)
    \/ \E c \in Callers : Lock(c)
    \/ \E c \in Callers : ReadClock(c)
    \/ \E c \in Callers : CheckClock(c)
    \/ \E c \in Callers : Spin(c)
    \/ \E c \in Callers : Compose(c)

\* A goroutine inside generateLocally keeps running, and a goroutine waiting
\* in Lock gets the mutex if it is released again and again (sync.Mutex hands
\* the mutex to a waiter that has starved).
FairCallers ==
    \A c \in Callers :
        /\ SF_vars(Lock(c))
        /\ WF_vars(ReadClock(c))
        /\ WF_vars(CheckClock(c))
        /\ WF_vars(Spin(c))
        /\ WF_vars(Compose(c))

\* One generator of the default identity, built without a client, at the
\* moment the clock reads Epoch.
InitLocalFair ==
    /\ InitLocalUnique
    /\ clock = Epoch

SpecLocalFair == InitLocalFair /\ [][NextLocalFair]_vars /\ FairCallers

\* Strict generation on two generators sharing the store.
SpecStrict == InitStrict /\ [][NextStrict]_vars

\* Strict generation while the clock stands or advances.
NextStrictForward ==
    \/ Tick
    \/ \E c \in Callers, g \in Gens : Generate(c, g)
    \/ \E c \in Callers : Claim(c)
    \/ \E c \in Callers : Handle(c)
    \/ Expire

SpecStrictForward == InitStrict /\ [][NextStrictForward]_vars

\* A goroutine inside generateWithRedisAssistance keeps running: the store
\* answers every SetNX and every sleep ends.
FairStrictCallers ==
    \A c \in Callers : WF_vars(Claim(c)) /\ WF_vars(Handle(c))

\* One generator of the default identity in strict mode, its store empty or
\* contended, at the moment the clock reads Epoch.
InitStrictFair ==
    /\ InitCallers
    /\ clock = Epoch
    /\ alive = {1}
    /\ node = [g \in Gens |-> NewNode(DefaultDatacenterID, DefaultWorkerID)]
    /\ strictMode = [g \in Gens |-> TRUE]
    /\ redisClient = [g \in Gens |-> TRUE]
    /\ \/ claims = << >> /\ budget = MaxStrictCalls
       \/ claims = Contended /\ budget = 1

\* Strict generation while no record expires.
NextStrictFair ==
    \/ Tick
    \/ \E c \in Callers, g \in Gens : Generate(c, g)
    \/ \E c \in Callers : Claim(c)
    \/ \E c \in Callers : Handle(c)

SpecStrictFair == InitStrictFair /\ [][NextStrictFair]_vars /\ FairStrictCallers

\* Generator 1 in strict mode and generator 2 in local mode, of the same
\* identity and with the same client, and a few calls in all.
InitMixed ==
    /\ InitCallers
    /\ alive = {1, 2}
    /\ node = [g \in Gens |-> NewNode(DefaultDatacenterID, DefaultWorkerID)]
    /\ strictMode = [g \in Gens |-> g = 1]
    /\ redisClient = [g \in Gens |-> TRUE]
    /\ claims = << >>
    /\ budget = MaxStrictCalls

\* Both paths of Generate under a clock that advances and goes back, with
\* one ID returned by generator 1 remembered.  The calls are too few for a
\* sequence overflow, so the wait of the local path has no step here.
NextMixed ==
    \/ Tick
    \/ Rollback
    \/ \E c \in Callers, g \in Gens : Generate(c, g)
    \/ \E c \in Callers : Lock(c)
    \/ \E c \in Callers : ReadClock(c)
    \/ \E c \in Callers : CheckClock(c)
    \/ \E c \in Callers : Compose(c)
    \/ \E c \in Callers : Claim(c)
    \/ \E c \in Callers : Handle(c)
    \/ RememberFirst

SpecMixed == InitMixed /\ [][NextMixed]_vars

NextWait ==
    \/ TickPast
    \/ Rollback
    \/ \E c \in Callers, g \in Gens : Generate(c, g)
    \/ \E c \in Callers : Lock(c)
    \/ \E c \in Callers : ReadClock(c)
    \/ \E c \in Callers : CheckClock(c)
    \/ \E c \in Callers : Spin(c)
    \/ \E c \in Callers : Compose(c)

\* Local generation on one generator while the clock advances, is set back
\* and advances past where it was.
SpecWait == InitLocalFair /\ [][NextWait]_vars

\* Strict generation, with one returned ID remembered.
SpecStrictUnique == InitStrict /\ [][NextStrict \/ Remember]_vars

\* No generator yet: processes build generators by allocation from one store
\* and generate locally, a few calls in all.
InitAllocated ==
    /\ InitCallers
    /\ alive = {}
    /\ node = [g \in Gens |-> NewNode(0, 0)]
    /\ strictMode = [g \in Gens |-> FALSE]
    /\ redisClient = [g \in Gens |-> FALSE]
    /\ claims = << >>
    /\ budget = MaxBuildCalls

NextAllocated ==
    \/ Tick
    \/ Rollback
    \/ \E g \in Gens : Configure(g, ZeroValue, ZeroValue, TRUE, FALSE)
    \/ \E g \in Gens : Build(g)
    \/ \E g \in Gens : IncrDatacenter(g)
    \/ \E g \in Gens : IncrWorker(g)
    \/ OtherNodes(maxDatacenterID)
    \/ \E c \in Callers, g \in Gens : Generate(c, g)
    \/ \E c \in Callers : Lock(c)
    \/ \E c \in Callers : ReadClock(c)
    \/ \E c \in Callers : CheckClock(c)
    \/ \E c \in Callers : Compose(c)
    \/ Remember

\* Generators built by allocation, generating locally, with one returned ID
\* remembered.
SpecAllocated == InitAllocated /\ [][NextAllocated]_vars

\* The ids a builder is given: below the range, zero (not set), the highest
\* valid id, above the range.
BuildIds == {-1, ZeroValue, maxDatacenterID, maxDatacenterID + 1}

\* No generator yet, and a store without counters or claim records.
InitBuild ==
    /\ InitCallers
    /\ clock = Epoch
    /\ alive = {}
    /\ node = [g \in Gens |-> NewNode(0, 0)]
    /\ strictMode = [g \in Gens |-> FALSE]
    /\ redisClient = [g \in Gens |-> FALSE]
    /\ claims = << >>
    /\ budget = MaxCallsAfterBuild

NextBuild ==
    \/ \E g \in Gens, d, w \in BuildIds, r, s \in BOOLEAN :
         Configure(g, d, w, r, s)
    \/ \E g \in Gens : Build(g)
    \/ \E g \in Gens : IncrDatacenter(g)
    \/ \E g \in Gens : IncrWorker(g)
    \/ OtherNodes(maxDatacenterID)
    \/ \E c \in Callers, g \in Gens : Generate(c, g)
    \/ \E c \in Callers : Lock(c)
    \/ \E c \in Callers : ReadClock(c)
    \/ \E c \in Callers : CheckClock(c)
    \/ \E c \in Callers : Compose(c)
    \/ \E c \in Callers : Claim(c)
    \/ \E c \in Callers : Handle(c)

\* Builders of every configuration build generators from one store, and a few
\* calls generate on what they built.
SpecBuild == InitBuild /\ [][NextBuild]_vars

NextSequential ==
    \/ \E g \in Gens : Configure(g, ZeroValue, ZeroValue, TRUE, FALSE)
    \/ \E g \in Gens : BuildAlone(g)
    \/ \E g \in Gens : IncrDatacenterSucceeds(g)
    \/ \E g \in Gens : IncrWorkerSucceeds(g)
    \/ OtherBuild

\* Allocating Builds on a store that had no counter, one at a time and
\* without an error of the store.
SpecSequential == InitBuild /\ [][NextSequential]_vars

\* The ids the builders of SpecLifecycle are given: not set, or the highest
\* valid id.
LifecycleIds == {ZeroValue, maxDatacenterID}

\* Builders with and without ids, client and strict mode build generators
\* from one store; callers generate on them and clean them up.
NextLifecycle ==
    \/ \E g \in Gens, d, w \in LifecycleIds, r, s \in BOOLEAN :
         Configure(g, d, w, r, s)
    \/ \E g \in Gens : Build(g)
    \/ \E g \in Gens : IncrDatacenter(g)
    \/ \E g \in Gens : IncrWorker(g)
    \/ OtherNodes(maxDatacenterID)
    \/ \E c \in Callers, g \in Gens : Generate(c, g)
    \/ \E c \in Callers : Lock(c)
    \/ \E c \in Callers : ReadClock(c)
    \/ \E c \in Callers : CheckClock(c)
    \/ \E c \in Callers : Compose(c)
    \/ \E c \in Callers : Claim(c)
    \/ \E c \in Callers : Handle(c)
    \/ \E g \in Gens : Cleanup(g)

SpecLifecycle == InitBuild /\ [][NextLifecycle]_vars

\* Identities that differ from the default one in the worker id only and in
\* the datacenter id only.
OtherIdentities == {<<1, 2>>, <<2, 1>>}

\* Two generators of different identities, each in local or in strict mode,
\* the strict ones on one store.
InitPartition ==
    /\ InitCallers
    /\ alive = {1, 2}
    /\ \E i \in OtherIdentities :
         node = [g \in Gens |->
                   IF g = 1 THEN NewNode(DefaultDatacenterID, DefaultWorkerID)
                            ELSE NewNode(i[1], i[2])]
    /\ strictMode \in [Gens -> BOOLEAN]
    /\ redisClient = strictMode
    /\ claims = << >>
    /\ budget = MaxBuildCalls

\* Generation in either mode under any clock, with one ID of generator 1
\* remembered.
NextPartition ==
    \/ Tick
    \/ Rollback
    \/ \E c \in Callers, g \in Gens : Generate(c, g)
    \/ \E c \in Callers : Lock(c)
    \/ \E c \in Callers : ReadClock(c)
    \/ \E c \in Callers : CheckClock(c)
    \/ \E c \in Callers : Compose(c)
    \/ \E c \in Callers : Claim(c)
    \/ \E c \in Callers : Handle(c)
    \/ RememberFirst

SpecPartition == InitPartition /\ [][NextPartition]_vars

\* No generator yet, an empty store, and the clock at any of its values.
InitAllocatedEither ==
    /\ InitCallers
    /\ alive = {}
    /\ node = [g \in Gens |-> NewNode(0, 0)]
    /\ strictMode = [g \in Gens |-> FALSE]
    /\ redisClient = [g \in Gens |-> FALSE]
    /\ claims = << >>
    /\ budget = MaxCallsAfterBuild

NextAllocatedEither ==
    \/ Tick
    \/ Rollback
    \/ \E g \in Gens, s \in BOOLEAN :
         Configure(g, ZeroValue, ZeroValue, TRUE, s)
    \/ \E g \in Gens : Build(g)
    \/ \E g \in Gens : IncrDatacenter(g)
    \/ \E g \in Gens : IncrWorker(g)
    \/ OtherNodes(maxDatacenterID)
    \/ \E c \in Callers, g \in Gens : Generate(c, g)
    \/ \E c \in Callers : Lock(c)
    \/ \E c \in Callers : ReadClock(c)
    \/ \E c \in Callers : CheckClock(c)
    \/ \E c \in Callers : Compose(c)
    \/ \E c \in Callers : Claim(c)
    \/ \E c \in Callers : Handle(c)

\* Generators built by allocation, with or without strict mode, and a few
\* calls on them while the clock moves.
SpecAllocatedEither == InitAllocatedEither /\ [][NextAllocatedEither]_vars

(* ------------------------------ decoding ------------------------------- *)

\* The fields of an ID, as a reader of IDs extracts them.
DecodeTimestamp(i) == Shr(i, timestampShift) + Epoch
DecodeDatacenter(i) == BitAnd(Shr(i, datacenterShift), maxDatacenterID)
DecodeWorker(i) == BitAnd(Shr(i, workerShift), maxWorkerID)
DecodeSequence(i) == BitAnd(i, maxSequence)

\* (timestamp, sequence) of ID i comes before that of ID j.
LexLess(i, j) ==
    \/ DecodeTimestamp(i) < DecodeTimestamp(j)
    \/ /\ DecodeTimestamp(i) = DecodeTimestamp(j)
       /\ DecodeSequence(i) < DecodeSequence(j)

(* ------------------------------- claims -------------------------------- *)

\* C1: one generator in local mode, called by concurrent callers under any
\* behaviour of the clock (advancing or set back at any moment), never
\* returns an ID that it returned before: no later successful call returns
\* the remembered ID.
LocalIdsDistinct == seen # NoId => ~dup

\* C1 happens: an ID was remembered, a later call returned another ID of the
\* same millisecond, and a concurrent caller is waiting for the lock.
LocalIdsDistinctWitness ==
    /\ seen # NoId
    /\ event.kind = "id"
    /\ event.id # seen
    /\ DecodeTimestamp(event.id) = DecodeTimestamp(seen)
    /\ \E c \in Callers : pc[c] = "lock" /\ mutex[rs[c]] # 0

\* C2: every successful local call on a generator returns an ID greater than
\* the one its previous successful call returned, and the decoded
\* (timestamp, sequence) pairs increase lexicographically; this holds for
\* every behaviour of the clock, a non-decreasing one included.
LocalIdsIncrease ==
    [][\A c \in Callers :
         (pc[c] = "compose" /\ pc'[c] = "idle" /\ lastId[rs[c]] # NoId)
         => /\ event'.kind = "id"
            /\ lastId'[rs[c]] = event'.id
            /\ event'.id > lastId[rs[c]]
            /\ LexLess(lastId[rs[c]], event'.id)]_vars

\* C2 happens: a generator returned an ID and then, in the same millisecond,
\* the next one.
LocalIdsIncreaseWitness ==
    /\ event.kind = "id"
    /\ event.timestamp = Epoch + 1
    /\ event.sequence = 1
    /\ lastId[event.gen] = event.id

\* C3: a local call whose clock read is lower than lastTimestamp fails with
\* the rollback error, returns no ID, releases the lock, and leaves the node
\* (lastTimestamp and sequence) as it was.
RollbackFailsCleanly ==
    [][\A c \in Callers :
         (pc[c] = "check" /\ pc'[c] # "check"
            /\ timestamp[c] < node[rs[c]].lastTimestamp)
         => /\ event'.kind = "rollback"
            /\ event'.gen = rs[c]
            /\ event'.id = 0
            /\ pc'[c] = "idle"
            /\ mutex'[rs[c]] = 0
            /\ node' = node
            /\ lastId' = lastId]_vars

\* C3 happens: a call failed with the rollback error on a generator that had
\* issued IDs, its sequence above 0.
RollbackFailsCleanlyWitness ==
    /\ event.kind = "rollback"
    /\ node[event.gen].lastTimestamp > clock
    /\ node[event.gen].sequence > 0

\* C4: a generator issues at most maxSequence + 1 IDs with one timestamp, the
\* k-th of them with sequence k - 1; a caller waits only after the last of
\* them, and a caller about to return either continues the sequence of the
\* current millisecond or has read a later clock value and starts at 0.
SequenceOverflowWaits ==
    /\ \A g \in Gens : minted[g] <= maxSequence + 1
    /\ event.kind = "id"
       => /\ event.sequence = minted[event.gen] - 1
          /\ event.timestamp = node[event.gen].lastTimestamp
    /\ \A c \in Callers :
         pc[c] = "spin"
         => /\ minted[rs[c]] = maxSequence + 1
            /\ node[rs[c]].sequence = 0
    /\ \A c \in Callers :
         pc[c] = "compose"
         => \/ /\ timestamp[c] > node[rs[c]].lastTimestamp
               /\ node[rs[c]].sequence = 0
            \/ /\ timestamp[c] = node[rs[c]].lastTimestamp
               /\ node[rs[c]].sequence = minted[rs[c]]
               /\ minted[rs[c]] <= maxSequence

\* C4 happens: after maxSequence + 1 IDs of one millisecond, the last with
\* sequence maxSequence, the next caller has waited and read a later clock
\* value, and is about to return.
SequenceOverflowWaitsWitness ==
    /\ event.kind = "id"
    /\ event.sequence = maxSequence
    /\ \E c \in Callers :
         /\ pc[c] = "compose"
         /\ rs[c] = event.gen
         /\ minted[rs[c]] = maxSequence + 1
         /\ timestamp[c] = event.timestamp + 1

\* C5: every ID a call returns, in either mode, decodes (timestamp from the
\* bits above timestampShift plus Epoch, datacenter and worker from their
\* 5-bit fields, sequence from the low bits) to the timestamp, identity and
\* sequence it was composed from, and composing the decoded fields gives the
\* same ID.
IdRoundTrip ==
    [][\A c \in Callers :
         (pc[c] \in {"compose", "reply"} /\ pc'[c] = "idle"
            /\ event'.kind = "id")
         => /\ event'.gen = rs[c]
            /\ DecodeTimestamp(event'.id) = event'.timestamp
            /\ DecodeDatacenter(event'.id) = node[rs[c]].datacenterID
            /\ DecodeWorker(event'.id) = node[rs[c]].workerID
            /\ DecodeSequence(event'.id) = event'.sequence
            /\ ComposeId(DecodeTimestamp(event'.id),
                         DecodeDatacenter(event'.id),
                         DecodeWorker(event'.id),
                         DecodeSequence(event'.id)) = event'.id]_vars

\* C5 happens: an ID was returned with bits set in all four fields.
IdRoundTripWitness ==
    /\ event.kind = "id"
    /\ event.timestamp > Epoch
    /\ node[event.gen].datacenterID = maxDatacenterID
    /\ node[event.gen].workerID = maxWorkerID - 1
    /\ event.sequence = maxSequence

\* C6: in strict mode, with generators of equal or different identities and
\* concurrent callers sharing one store, a successful call returns the
\* remembered ID of an earlier successful call only if that ID's claim record
\* has expired: while the record made by the first claim lives, no two
\* successful calls return the same ID.
StrictIdsDistinctWhileClaimed == dup => seen \in gone

\* C6 happens: while the remembered ID's record lives, a later call of the
\* same identity in the same millisecond was refused and returned the next
\* candidate.
StrictIdsDistinctWhileClaimedWitness ==
    /\ seen # NoId
    /\ seen \in Claimed
    /\ gone = {}
    /\ event.kind = "id"
    /\ event.attempts >= 2
    /\ event.id = seen + 1

\* C7: generators built by allocation from one store and generating locally
\* never return equal IDs, on the same or on different generators.
AllocatedIdsUnique == dup = FALSE

\* C8: a call is on the strict path only on a generator with strict mode and
\* a client, and on the local path only on any other generator; a generator
\* without both never ends a call with an error of the strict path.
StrictPathIffConfigured ==
    /\ \A c \in Callers :
         /\ pc[c] \in {"attempt", "reply"}
            => strictMode[rs[c]] /\ redisClient[rs[c]]
         /\ pc[c] \in {"lock", "read", "check", "spin", "compose"}
            => ~(strictMode[rs[c]] /\ redisClient[rs[c]])
    /\ event.kind \in {"storeerror", "exhausted"}
       => strictMode[event.gen] /\ redisClient[event.gen]
    /\ event.kind = "rollback"
       => ~(strictMode[event.gen] /\ redisClient[event.gen])

\* C8 happens: a generator with strict mode and no client returned an ID, the
\* second of a millisecond, and the store is untouched.
StrictPathIffConfiguredWitness ==
    /\ event.kind = "id"
    /\ strictMode[event.gen]
    /\ ~redisClient[event.gen]
    /\ event.sequence = 1
    /\ claims = << >>

\* C9: a strict call whose claim is refused goes on to the next attempt,
\* except after the attempt numbered maxRetries - 1: then it has made
\* maxRetries attempts and fails with the exhausted error and no ID.
ExhaustedAfterMaxRetries ==
    [][\A c \in Callers :
         (pc[c] = "reply" /\ reply[c] = "exists" /\ pc'[c] # "reply")
         => IF attempt[c] = maxRetries - 1
            THEN /\ pc'[c] = "idle"
                 /\ event'.kind = "exhausted"
                 /\ event'.attempts = maxRetries
                 /\ event'.id = 0
            ELSE /\ pc'[c] = "attempt"
                 /\ attempt'[c] = attempt[c] + 1
                 /\ event' = event]_vars

\* C9 happens: a call failed with the exhausted error.
ExhaustedAfterMaxRetriesWitness ==
    /\ event.kind = "exhausted"
    /\ event.attempts = maxRetries
    /\ Len(claims) = maxRetries

ManualIdsWin ==
    [][\A g \in Gens :
         (/\ builder[g].pc = "configured"
          /\ builder'[g].pc # "configured"
          /\ builder[g].datacenterID \in 1 .. maxDatacenterID
          /\ builder[g].workerID \in 1 .. maxWorkerID)
         => /\ builder'[g].pc = "done"
            /\ event'.kind = "built"
            /\ g \in alive'
            /\ node'[g].datacenterID = builder[g].datacenterID
            /\ node'[g].workerID = builder[g].workerID
            /\ redisClient'[g] = builder[g].client
            /\ strictMode'[g] = builder[g].strictMode
            /\ counters' = counters
            /\ claims' = claims]_vars

\* C11 happens: a generator built with manual ids, a client and strict mode
\* claimed an ID in the store, and the store has no allocation counter.
ManualIdsWinWitness ==
    /\ counters = [datacenter |-> 0, worker |-> 0]
    /\ \E c \in Callers :
         /\ pc[c] = "reply"
         /\ reply[c] = "set"
         /\ node[rs[c]].datacenterID = maxDatacenterID
         /\ node[rs[c]].workerID = maxWorkerID
         /\ redisClient[rs[c]]

\* C12: a Build whose builder has both ids 0 and a client makes no call to
\* the store in its first step, then increments the datacenter counter alone,
\* then the worker counter alone, each by one, and returns a generator whose
\* ids are the two returned values modulo 32, with the client kept; a
\* returned value of 37 gives the id 5.
AllocationIncrementsTwice ==
    [][\A g \in Gens :
         (/\ builder[g].datacenterID = 0
          /\ builder[g].workerID = 0
          /\ builder[g].client)
         => /\ (builder[g].pc = "configured" /\ builder'[g].pc # "configured")
               => /\ builder'[g].pc = "datacenter"
                  /\ counters' = counters
                  /\ alive' = alive
            /\ (builder[g].pc = "datacenter" /\ builder'[g].pc = "worker")
               => /\ counters'.datacenter = counters.datacenter + 1
                  /\ counters'.worker = counters.worker
                  /\ builder'[g].raw = counters'.datacenter
                  /\ alive' = alive
            /\ g \in alive' \ alive
               => /\ builder[g].pc = "worker"
                  /\ counters'.worker = counters.worker + 1
                  /\ counters'.datacenter = counters.datacenter
                  /\ node'[g].datacenterID = builder[g].raw % 32
                  /\ node'[g].workerID = counters'.worker % 32
                  /\ redisClient'[g]
            /\ LimitDatacenter(37) = 5
            /\ LimitWorker(37) = 5]_vars

\* C12 happens: two allocating Builds and the Builds of other processes
\* interleaved, and one returned a generator after Incr gave it 32 for the
\* datacenter and 33 for the worker: its ids are 0 and 1.
AllocationIncrementsTwiceWitness ==
    /\ event.kind = "built"
    /\ counters.worker = 33
    /\ node[event.gen].datacenterID = 0
    /\ node[event.gen].workerID = 1
    /\ redisClient[event.gen]

\* C13: a Build whose builder has both ids 0 and no client returns, in one
\* step and without any call to the store, a generator of identity (1, 1)
\* without a client; and a Generate call on a generator without a client is
\* never on the strict path and none of its steps changes the store.
DefaultIdentityWithoutClient ==
    [][/\ \A g \in Gens :
            (/\ builder[g].pc = "configured"
             /\ builder'[g].pc # "configured"
             /\ builder[g].datacenterID = 0
             /\ builder[g].workerID = 0
             /\ ~builder[g].client)
            => /\ builder'[g].pc = "done"
               /\ event'.kind = "built"
               /\ g \in alive'
               /\ node'[g] = [datacenterID |-> 1, workerID |-> 1,
                              sequence |-> 0, lastTimestamp |-> 0]
               /\ ~redisClient'[g]
               /\ counters' = counters
               /\ claims' = claims
       /\ \A c \in Callers :
            (/\ pc'[c] # pc[c]
             /\ ~redisClient[IF pc[c] = "idle" THEN rs'[c] ELSE rs[c]])
            => /\ pc'[c] \notin {"attempt", "reply"}
               /\ counters' = counters
               /\ claims' = claims]_vars

\* C13 happens: a generator built without a client, with strict mode on and
\* the default identity, returned an ID, and the store is empty.
DefaultIdentityWithoutClientWitness ==
    /\ event.kind = "id"
    /\ ~redisClient[event.gen]
    /\ strictMode[event.gen]
    /\ node[event.gen].datacenterID = 1
    /\ node[event.gen].workerID = 1
    /\ counters = [datacenter |-> 0, worker |-> 0]
    /\ claims = << >>

\* C14: each store step of an allocating Build either increments its counter
\* by one and goes on, or fails: then Build ends with the allocation error
\* and no generator, no counter changes in that step, and the other counter
\* is as it was, so after a failure of the second call the datacenter
\* counter keeps the increment of the first.
AllocationErrorAborts ==
    [][\A g \in Gens :
         /\ builder[g].pc = "datacenter" /\ builder'[g].pc # "datacenter"
            => /\ g \notin alive'
               /\ \/ /\ builder'[g].pc = "worker"
                     /\ counters'.datacenter = counters.datacenter + 1
                     /\ counters'.worker = counters.worker
                  \/ /\ builder'[g].pc = "done"
                     /\ event'.kind = "allocerror"
                     /\ event'.gen = g
                     /\ counters' = counters
                     /\ genVars' = genVars
         /\ builder[g].pc = "worker" /\ builder'[g].pc # "worker"
            => /\ builder'[g].pc = "done"
               /\ counters'.datacenter = counters.datacenter
               /\ counters.datacenter >= builder[g].raw
               /\ builder[g].raw >= 1
               /\ \/ /\ g \in alive'
                     /\ event'.kind = "built"
                     /\ counters'.worker = counters.worker + 1
                  \/ /\ event'.kind = "allocerror"
                     /\ event'.gen = g
                     /\ counters'.worker = counters.worker
                     /\ genVars' = genVars]_vars

\* C14 happens: the second call of the only Build failed; the datacenter
\* counter is at 1, the worker counter absent, and there is no generator.
AllocationErrorAbortsWitness ==
    /\ event.kind = "allocerror"
    /\ counters = [datacenter |-> 1, worker |-> 0]
    /\ alive = {}
    /\ builder[1].pc = "done"
    /\ builder[2].pc = "none"

\* C15: when Build constructs a node from a builder's manual ids, an id below
\* 0 or above 31 gives the invalid-datacenter or invalid-worker error and no
\* node or generator; ids within 0..31 give a node with those ids, sequence 0
\* and lastTimestamp 0.  Every generator that any Build returns starts with
\* ids within 0..31, sequence 0 and lastTimestamp 0.
NodeRangeChecked ==
    [][\A g \in Gens :
         /\ (/\ builder[g].pc = "configured"
             /\ builder'[g].pc = "done"
             /\ builder[g].datacenterID # 0
             /\ builder[g].workerID # 0)
            => IF /\ builder[g].datacenterID \in 0 .. 31
                  /\ builder[g].workerID \in 0 .. 31
               THEN /\ g \in alive'
                    /\ node'[g] = [datacenterID |-> builder[g].datacenterID,
                                   workerID |-> builder[g].workerID,
                                   sequence |-> 0, lastTimestamp |-> 0]
               ELSE /\ event'.kind =
                         IF builder[g].datacenterID \notin 0 .. 31
                         THEN "invaliddatacenter" ELSE "invalidworker"
                    /\ event'.gen = g
                    /\ alive' = alive
                    /\ node' = node
         /\ g \in alive' \ alive
            => /\ node'[g].datacenterID \in 0 .. 31
               /\ node'[g].workerID \in 0 .. 31
               /\ node'[g].sequence = 0
               /\ node'[g].lastTimestamp = 0]_vars

\* C15 happens: one Build failed on a worker id out of range after its
\* datacenter id passed, and another returned a generator with the highest
\* ids.
NodeRangeCheckedWitness ==
    /\ event.kind = "invalidworker"
    /\ \E g \in alive :
         /\ g # event.gen
         /\ node[g].datacenterID = 31
         /\ node[g].workerID = 31
         /\ node[g].sequence = 0

\* C16: no step of a Generate call on a generator without strict mode is on
\* the strict path, the only place where Generate calls the store, and none
\* changes the store: claim records and allocation counters stay as they are.
LocalGenerationLeavesStore ==
    [][\A c \in Callers :
         (/\ pc'[c] # pc[c]
          /\ ~strictMode[IF pc[c] = "idle" THEN rs'[c] ELSE rs[c]])
         => /\ pc'[c] \in {"idle", "lock", "read", "check", "spin", "compose"}
            /\ claims' = claims
            /\ gone' = gone
            /\ counters' = counters]_vars

\* C16 happens: a generator built by allocation, with a client and without
\* strict mode, returned an ID, and the store holds what the allocation left.
LocalGenerationLeavesStoreWitness ==
    /\ event.kind = "id"
    /\ ~strictMode[event.gen]
    /\ redisClient[event.gen]
    /\ counters = [datacenter |-> 1, worker |-> 1]
    /\ claims = << >>

\* C17: every ID returned, in local or strict mode, by a call that read a
\* clock value above Epoch is strictly positive, and the bits above
\* timestampShift hold exactly the clock value less Epoch: nothing reaches
\* beyond the timestamp field into the sign bit.
IdsPositive ==
    (event.kind = "id" /\ event.timestamp > Epoch)
    => /\ event.id > 0
       /\ Shr(event.id, timestampShift) = event.timestamp - Epoch

\* C17 happens: a generator of identity (0, 0) returned an ID with sequence 0
\* one millisecond after Epoch: the timestamp bit is its only bit.
IdsPositiveWitness ==
    /\ event.kind = "id"
    /\ event.timestamp = Epoch + 1
    /\ node[event.gen].datacenterID = 0
    /\ node[event.gen].workerID = 0
    /\ event.sequence = 0
    /\ event.id = Pow2(timestampShift)

\* The callers inside the critical section of generator g: past Lock, from
\* the clock read to the composition of the ID.
InCriticalSection(g) ==
    {c \in Callers : rs[c] = g /\ pc[c] \in {"read", "check", "spin", "compose"}}

\* C18: at most one caller at a time is inside the critical section of a
\* generator, and it is the holder of the generator's mutex; a call returns
\* an ID while it holds the mutex, and the ID is greater than the one
\* returned by the call that held the mutex before it.
LocalCallsSerialized ==
    /\ [](\A g \in Gens :
            /\ Cardinality(InCriticalSection(g)) <= 1
            /\ InCriticalSection(g) = {c \in Callers : mutex[g] = c})
    /\ [][\A c \in Callers :
            (pc[c] = "compose" /\ pc'[c] = "idle")
            => /\ mutex[rs[c]] = c
               /\ mutex'[rs[c]] = 0
               /\ lastId[rs[c]] # NoId => event'.id > lastId[rs[c]]]_vars

\* C18 happens: one caller is about to return its ID, after an earlier ID of
\* the generator, while another caller waits for the mutex.
LocalCallsSerializedWitness ==
    \E c, d \in Callers :
        /\ pc[c] = "compose"
        /\ pc[d] = "lock"
        /\ rs[c] = rs[d]
        /\ mutex[rs[c]] = c
        /\ lastId[rs[c]] # NoId

\* C19: a caller in the sequence-overflow wait holds the mutex of its
\* generator, and while it waits no other call on that generator returns,
\* with an ID or with an error: such a call stays where it is, in front of
\* Lock.
WaitHoldsLock ==
    /\ [](\A c \in Callers : pc[c] = "spin" => mutex[rs[c]] = c)
    /\ [][\A c, d \in Callers :
            (/\ c # d
             /\ pc[c] = "spin"
             /\ pc[d] # "idle"
             /\ rs[d] = rs[c])
            => /\ pc[d] = "lock"
               /\ pc'[c] = "spin" => (pc'[d] = "lock" /\ event' = event)]_vars

\* C19 happens: a caller has read the clock again in the wait and must go on
\* waiting, while another call on the same generator is queued at Lock.
WaitHoldsLockWitness ==
    \E c, d \in Callers :
        /\ pc[c] = "spin"
        /\ timestamp[c] = clock
        /\ MustWait(clock, node[rs[c]].lastTimestamp)
        /\ node[rs[c]].sequence = 0
        /\ lastId[rs[c]] # NoId
        /\ pc[d] = "lock"
        /\ rs[d] = rs[c]

\* Caller c is in the overflow wait and the clock does not exceed the
\* lastTimestamp it waits for.
Stuck(c) == pc[c] = "spin" /\ clock <= node[rs[c]].lastTimestamp

\* The clock eventually exceeds the lastTimestamp any caller waits for.
ClockAdvances == \A c \in Callers : []<>(~Stuck(c))

\* C20: under a clock that never goes back, with fair callers and a fair
\* mutex, (1) a local call returns nothing but an ID, (2) if the clock
\* eventually exceeds every lastTimestamp that is waited for, every call
\* that has started returns, and (3) whatever the clock does, a call that
\* has not returned is waiting, or queued behind a caller that is waiting,
\* in the overflow wait for a clock that does not exceed lastTimestamp.
LocalCallsReturn ==
    /\ [][\A c \in Callers :
            (pc[c] # "idle" /\ pc'[c] = "idle")
            => (event'.kind = "id" /\ event'.gen = rs[c])]_vars
    /\ ClockAdvances
       => \A c \in Callers : (pc[c] # "idle") ~> (pc[c] = "idle")
    /\ \A c \in Callers :
         (pc[c] # "idle")
         ~> (pc[c] = "idle" \/ \E e \in Callers : Stuck(e))

\* C20 happens: the clock has passed the lastTimestamp a caller waits for in
\* the overflow wait, and another call is queued behind it.
LocalCallsReturnWitness ==
    \E c, d \in Callers :
        /\ pc[c] = "spin"
        /\ clock > node[rs[c]].lastTimestamp
        /\ timestamp[c] = node[rs[c]].lastTimestamp
        /\ pc[d] = "lock"
        /\ rs[d] = rs[c]

\* What a Generate call on the local path can return: an ID or the rollback
\* error.  ErrOverFlow (node.go:42) is declared and returned nowhere.
LocalReturns == {"id", "rollback"}

\* C21: a local call returns an error exactly when the clock value it read
\* on entry is lower than lastTimestamp: the rollback check then ends the
\* call with the rollback error, and every other return of a local call is
\* an ID, made after the composition; a caller leaves the overflow wait only
\* towards the composition, never with an error, and no return is anything
\* but an ID or the rollback error.
LocalErrorIffRollback ==
    /\ [](event.kind \in LocalReturns \cup {"none"})
    /\ [][\A c \in Callers :
            /\ (pc[c] = "check" /\ pc'[c] # "check")
               => (timestamp[c] < node[rs[c]].lastTimestamp
                     <=> (pc'[c] = "idle" /\ event'.kind = "rollback"))
            /\ (pc[c] \in {"lock", "read", "check", "spin", "compose"}
                  /\ pc'[c] = "idle")
               => IF pc[c] = "check"
                  THEN /\ timestamp[c] < node[rs[c]].lastTimestamp
                       /\ event'.kind = "rollback"
                  ELSE /\ pc[c] = "compose"
                       /\ event'.kind = "id"
            /\ (pc[c] = "spin" /\ pc'[c] # "spin")
               => (pc'[c] = "compose" /\ event' = event)]_vars

\* C21 happens: after a call failed on a clock that was set back, the clock
\* is forward again and the sequence of the millisecond is exhausted: a
\* caller is in the overflow wait.
LocalErrorIffRollbackWitness ==
    /\ event.kind = "rollback"
    /\ \E c \in Callers :
         /\ pc[c] = "spin"
         /\ rs[c] = event.gen
         /\ minted[rs[c]] = maxSequence + 1

\* C22: a call that fails on a clock set back ends at once, with the mutex
\* released and the node untouched, and the generator goes on working: the
\* next call on it whose clock read is not lower than lastTimestamp is not
\* refused, it continues the sequence of the last issued ID when it read
\* lastTimestamp itself and starts at 0 when it read a later value, and the
\* ID it returns is greater than every ID issued before the failure.
RollbackDoesNotPoison ==
    [][\A c \in Callers :
         LET g == rs[c]
             afterRollback == event.kind = "rollback" /\ event.gen = g
         IN  /\ (pc[c] = "check" /\ pc'[c] = "idle")
                => /\ mutex'[g] = 0
                   /\ node' = node
                   /\ lastId' = lastId
                   /\ DecodeSequence(lastId[g]) = node[g].sequence
                   /\ DecodeTimestamp(lastId[g]) = node[g].lastTimestamp
             /\ (afterRollback /\ pc[c] = "check" /\ pc'[c] # "check"
                   /\ timestamp[c] >= node[g].lastTimestamp)
                => /\ pc'[c] \in {"compose", "spin"}
                   /\ event' = event
                   /\ node'[g].sequence =
                        IF timestamp[c] = node[g].lastTimestamp
                        THEN NextSequence(DecodeSequence(lastId[g]))
                        ELSE 0
                   /\ pc'[c] = "spin" <=> node'[g].sequence = 0
                                          /\ timestamp[c] =
                                               node[g].lastTimestamp
             /\ (afterRollback /\ pc[c] = "compose" /\ pc'[c] = "idle")
                => /\ event'.kind = "id"
                   /\ event'.id > lastId[g]
                   /\ LexLess(lastId[g], event'.id)]_vars

\* C22 happens: a call failed on a clock set back, the clock came forward to
\* lastTimestamp, and the next call is about to return the ID that follows
\* the last one issued before the failure.
RollbackDoesNotPoisonWitness ==
    /\ event.kind = "rollback"
    /\ \E c \in Callers :
         /\ pc[c] = "compose"
         /\ rs[c] = event.gen
         /\ timestamp[c] = node[rs[c]].lastTimestamp
         /\ node[rs[c]].sequence = DecodeSequence(lastId[rs[c]]) + 1

\* C23: the attempt numbered a (0 <= a < maxRetries) of a strict call reads
\* the clock and asks the store to create the record of one candidate: the
\* ID whose timestamp field is clock - Epoch, whose identity fields are the
\* generator's, and whose sequence field is (clock + a) mod (maxSequence + 1).
\* The store creates the record exactly when it answers without error and no
\* record of that ID exists, and keeps every other record; a call whose claim
\* was granted returns exactly the candidate it claimed.
StrictCandidateClaimed ==
    [][\A c \in Callers :
         LET g == rs[c]
         IN  /\ (pc[c] = "attempt" /\ pc'[c] = "reply")
                => /\ attempt[c] \in 0 .. (maxRetries - 1)
                   /\ timestamp'[c] = clock
                   /\ Shr(id'[c], timestampShift) = clock - Epoch
                   /\ DecodeDatacenter(id'[c]) = node[g].datacenterID
                   /\ DecodeWorker(id'[c]) = node[g].workerID
                   /\ DecodeSequence(id'[c]) =
                        (clock + attempt[c]) % (maxSequence + 1)
                   /\ reply'[c] = "set" => (/\ id'[c] \notin Claimed
                                            /\ claims' = Append(claims, id'[c]))
                   /\ reply'[c] = "exists" => (/\ id'[c] \in Claimed
                                               /\ claims' = claims)
                   /\ reply'[c] = "error" => claims' = claims
                   /\ reply'[c] \in {"set", "exists", "error"}
             /\ (pc[c] = "reply" /\ pc'[c] # "reply" /\ reply[c] = "set")
                => /\ pc'[c] = "idle"
                   /\ event'.kind = "id"
                   /\ event'.gen = g
                   /\ event'.id = id[c]
                   /\ event'.attempts = attempt[c] + 1
                   /\ claims' = claims]_vars

\* C23 happens: the second attempt of a call was granted the candidate with
\* the sequence field of clock + 1, after the first was refused.
StrictCandidateClaimedWitness ==
    \E c \in Callers :
        /\ pc[c] = "reply"
        /\ reply[c] = "set"
        /\ attempt[c] = 1
        /\ timestamp[c] = Epoch + 1
        /\ DecodeSequence(id[c]) = 2
        /\ Len(claims) >= 2
        /\ claims[Len(claims)] = id[c]

\* C24: on generators in strict mode with a client, whatever calls have been
\* made and however they ended, lastTimestamp and sequence hold the values
\* NewNode gave them and the mutex is free; a call is never in the locked
\* section, and a caller inside a call can always take its next step, be
\* there other calls in progress on the same generator or not.
StrictLeavesNodeAlone ==
    /\ \A g \in alive :
         (strictMode[g] /\ redisClient[g])
         => /\ node[g].lastTimestamp = 0
            /\ node[g].sequence = 0
            /\ mutex[g] = 0
    /\ \A c \in Callers :
         /\ pc[c] \in {"idle", "attempt", "reply"}
         /\ pc[c] = "attempt" => ENABLED Claim(c)
         /\ pc[c] = "reply" => ENABLED Handle(c)

\* C24 happens: two calls are in progress on one generator at once, one
\* granted and one refused, and the node is as NewNode made it.
StrictLeavesNodeAloneWitness ==
    \E c, d \in Callers :
        /\ c # d
        /\ rs[c] = rs[d]
        /\ pc[c] = "reply" /\ reply[c] = "set"
        /\ pc[d] = "reply" /\ reply[d] = "exists"
        /\ node[rs[c]].lastTimestamp = 0
        /\ node[rs[c]].sequence = 0

\* C25: the store gains a record only in an attempt whose claim is granted,
\* one record, that of the attempt's candidate, which had none; the call
\* then returns that candidate without another attempt.  A refused attempt,
\* a store error, the handling of any reply and the end of any call leave
\* the records as they are, and a record goes away by expiration only, the
\* oldest first, never by a step of a call.
StrictClaimsOneRecord ==
    [][/\ \A c \in Callers :
            /\ (pc[c] = "attempt" /\ pc'[c] = "reply")
               => IF reply'[c] = "set"
                  THEN /\ id'[c] \notin Claimed
                       /\ claims' = Append(claims, id'[c])
                  ELSE claims' = claims
            /\ (pc[c] = "reply" /\ pc'[c] # "reply")
               => /\ claims' = claims
                  /\ gone' = gone
                  /\ IF reply[c] = "set"
                     THEN /\ pc'[c] = "idle"
                          /\ event'.kind = "id"
                          /\ event'.id = id[c]
                          /\ id[c] \in Claimed \cup gone
                     ELSE IF reply[c] = "exists"
                     THEN \/ pc'[c] = "attempt" /\ event' = event
                          \/ pc'[c] = "idle" /\ event'.kind = "exhausted"
                     ELSE /\ pc'[c] = "idle"
                          /\ event'.kind = "storeerror"
       /\ claims' # claims
          => \/ \E c \in Callers :
                  /\ pc[c] = "attempt"
                  /\ reply'[c] = "set"
                  /\ Len(claims') = Len(claims) + 1
             \/ /\ claims # << >>
                /\ claims' = Tail(claims)
                /\ gone' = gone \cup {Head(claims)}
                /\ pc' = pc
                /\ event' = event]_vars

\* C25 happens: two calls have succeeded, the second after a refused attempt,
\* and the store holds two records, the later one that of the ID returned
\* last.
StrictClaimsOneRecordWitness ==
    /\ event.kind = "id"
    /\ event.attempts = 2
    /\ Len(claims) = 2
    /\ claims[2] = event.id
    /\ gone = {}
    /\ \A c \in Callers : pc[c] = "idle"

\* C26: a strict call makes its attempts in order, at most maxRetries of
\* them, each reading the clock anew, and has slept once after each attempt
\* before the current one; it ends at the first granted claim and at the
\* first store error without a sleep, and after the refused attempt numbered
\* maxRetries - 1 without a sleep either, so that it returns after at most
\* maxRetries claims and maxRetries - 1 sleeps; and every call that has
\* started returns, whatever the store answers.
StrictCallTerminates ==
    /\ [](\A c \in Callers :
            /\ attempt[c] \in 0 .. (maxRetries - 1)
            /\ sleeps[c] = attempt[c])
    /\ [][\A c \in Callers :
            /\ (pc[c] = "attempt" /\ pc'[c] = "reply")
               => (timestamp'[c] = clock /\ attempt'[c] = attempt[c])
            /\ (pc[c] = "reply" /\ pc'[c] = "attempt")
               => /\ reply[c] = "exists"
                  /\ attempt[c] < maxRetries - 1
                  /\ attempt'[c] = attempt[c] + 1
                  /\ sleeps'[c] = sleeps[c] + 1
            /\ (pc[c] = "reply" /\ pc'[c] = "idle")
               => /\ event'.attempts = attempt[c] + 1
                  /\ event'.attempts <= maxRetries
                  /\ event'.sleeps = attempt[c]
                  /\ event'.sleeps <= maxRetries - 1
                  /\ \/ reply[c] \in {"set", "error"}
                     \/ reply[c] = "exists" /\ attempt[c] = maxRetries - 1
            /\ (pc[c] = "reply" /\ reply[c] \in {"set", "error"})
               => pc'[c] \in {"reply", "idle"}]_vars
    /\ \A c \in Callers : (pc[c] # "idle") ~> (pc[c] = "idle")

\* C26 happens: a call is handling the refusal of its last attempt, after
\* maxRetries - 1 sleeps.
StrictCallTerminatesWitness ==
    \E c \in Callers :
        /\ pc[c] = "reply"
        /\ reply[c] = "exists"
        /\ attempt[c] = maxRetries - 1
        /\ sleeps[c] = maxRetries - 1

\* C27: a generator gets its identity when Build returns it, an identity
\* within the range of the fields, and keeps it through every later step, the
\* steps of Generate in either mode and Cleanup included; every ID a call
\* returns carries the generator's identity in its datacenter and worker
\* fields; and the allocation counters of the store move only during the
\* Build of a generator that is not returned yet, or by other processes.
IdentityAssignedOnce ==
    [][/\ \A g \in Gens :
            /\ g \in alive
               => /\ g \in alive'
                  /\ node'[g].datacenterID = node[g].datacenterID
                  /\ node'[g].workerID = node[g].workerID
            /\ (g \notin alive /\ g \in alive')
               => /\ node'[g].datacenterID \in 0 .. maxDatacenterID
                  /\ node'[g].workerID \in 0 .. maxWorkerID
                  /\ builder[g].pc \in {"configured", "worker"}
       /\ \A c \in Callers :
            (pc[c] \in {"compose", "reply"} /\ pc'[c] = "idle"
               /\ event'.kind = "id")
            => /\ DecodeDatacenter(event'.id) = node[rs[c]].datacenterID
               /\ DecodeWorker(event'.id) = node[rs[c]].workerID
       /\ counters' # counters
          => \/ \E g \in Gens :
                  /\ g \notin alive
                  /\ builder[g].pc \in {"datacenter", "worker"}
                  /\ builder'[g].pc # builder[g].pc
             \/ /\ builder' = builder
                /\ alive' = alive
                /\ pc' = pc
                /\ event' = event]_vars

\* C27 happens: a generator that was allocated the identity (2, 1) has
\* returned an ID carrying it and has been cleaned up since.
IdentityAssignedOnceWitness ==
    /\ event.kind = "cleanup"
    /\ node[event.gen].datacenterID = 2
    /\ node[event.gen].workerID = 1
    /\ lastId[event.gen] # NoId
    /\ DecodeDatacenter(lastId[event.gen]) = 2
    /\ DecodeWorker(lastId[event.gen]) = 1

\* C28: the sequence of a generator is always within 0 .. maxSequence; no
\* step lowers lastTimestamp, whatever the clock does; and when a local call
\* returns an ID, lastTimestamp and sequence are the timestamp and the
\* sequence field of that ID.
NodeStateFollowsIds ==
    /\ [](\A g \in Gens : node[g].sequence \in 0 .. maxSequence)
    /\ [][/\ \A g \in Gens :
               node'[g].lastTimestamp >= node[g].lastTimestamp
          /\ \A c \in Callers :
               (pc[c] = "compose" /\ pc'[c] = "idle")
               => /\ event'.kind = "id"
                  /\ node'[rs[c]].lastTimestamp = DecodeTimestamp(event'.id)
                  /\ node'[rs[c]].sequence = DecodeSequence(event'.id)
                  /\ node'[rs[c]].lastTimestamp = timestamp[c]]_vars

\* C28 happens: a generator has returned the ID with the highest sequence of
\* a millisecond and the clock has been set back since: lastTimestamp stays
\* where that ID put it.
NodeStateFollowsIdsWitness ==
    /\ event.kind = "id"
    /\ event.sequence = maxSequence
    /\ node[event.gen].sequence = maxSequence
    /\ node[event.gen].lastTimestamp = event.timestamp
    /\ clock < node[event.gen].lastTimestamp

\* C29: two generators whose identities differ, in the worker id or in the
\* datacenter id, never return equal IDs, be they in local or in
\* strict mode and whatever the clock reads at either call: no ID that the
\* second generator returns is the remembered ID of the first.
IdentitiesPartitionIds ==
    /\ (node[1].datacenterID # node[2].datacenterID
          \/ node[1].workerID # node[2].workerID)
    /\ (seen # NoId /\ event.kind = "id" /\ event.gen = 2)
       => event.id # seen

\* C29 happens: the two generators, which differ in the worker id only, one
\* local and one strict, have returned IDs of the same millisecond and the
\* same sequence.
IdentitiesPartitionIdsWitness ==
    /\ seen # NoId
    /\ event.kind = "id"
    /\ event.gen = 2
    /\ node[2].datacenterID = node[1].datacenterID
    /\ strictMode[1] # strictMode[2]
    /\ event.timestamp = DecodeTimestamp(seen)
    /\ event.sequence = DecodeSequence(seen)

\* C30: no step of Build, Generate or Cleanup lowers an allocation counter or
\* removes a claim record.  An increment made by an allocating Build raises
\* its counter by exactly one and leaves the other; a Build that is not at an
\* increment, and every step of Generate and of Cleanup, leaves both.  A
\* Cleanup changes nothing at all of the store, the generators, the builders
\* and the calls in progress, so that whatever could happen before it can
\* happen after it.
StoreNeverShrinks ==
    [][/\ counters'.datacenter >= counters.datacenter
       /\ counters'.worker >= counters.worker
       /\ \A g \in Gens :
            /\ (builder[g].pc = "datacenter" /\ builder'[g].pc = "worker")
               => /\ counters'.datacenter = counters.datacenter + 1
                  /\ counters'.worker = counters.worker
            /\ (builder[g].pc = "worker" /\ builder'[g].pc = "done"
                  /\ event'.kind # "allocerror")
               => /\ counters'.worker = counters.worker + 1
                  /\ counters'.datacenter = counters.datacenter
            /\ (builder'[g] # builder[g]
                  /\ ~(builder[g].pc = "datacenter"
                         /\ builder'[g].pc = "worker")
                  /\ ~(builder[g].pc = "worker" /\ builder'[g].pc = "done"
                         /\ event'.kind # "allocerror"))
               => counters' = counters
       /\ (pc' # pc \/ (event' # event /\ event'.kind = "cleanup"))
          => counters' = counters
       /\ claims' # claims
          => /\ Len(claims') = Len(claims) + 1
             /\ \A i \in 1 .. Len(claims) : claims'[i] = claims[i]
       /\ (event' # event /\ event'.kind = "cleanup")
          => /\ event'.gen \in alive
             /\ UNCHANGED <<claims, counters, gone, builder, clock>>
             /\ UNCHANGED <<alive, node, strictMode, redisClient>>
             /\ UNCHANGED <<mutex, pc, rs, timestamp, attempt, id, reply,
                            sleeps, budget>>
             /\ UNCHANGED <<lastId, minted, dup, seen>>]_vars

\* C30 happens: a Build has failed between its two increments, leaving the
\* datacenter counter ahead, a later Build has allocated a strict generator,
\* a call on it has claimed a record, and the generator has been cleaned up.
StoreNeverShrinksWitness ==
    /\ event.kind = "cleanup"
    /\ strictMode[event.gen]
    /\ claims # << >>
    /\ counters.datacenter = 2
    /\ counters.worker = 1

\* C31, as stated: no Build returns a generator when the datacenter id or
\* the worker id of its builder is below 0 or above 31, whatever the other id
\* is and whether a client is set or not.
InvalidIdsAlwaysRejected ==
    [][\A g \in Gens :
         g \in alive' \ alive
         => /\ builder[g].datacenterID \in 0 .. maxDatacenterID
            /\ builder[g].workerID \in 0 .. maxWorkerID]_vars

\* C31, amended: a Build whose builder has both ids non-zero and one of them
\* below 0 or above 31 fails in its first step with the invalid-datacenter
\* or the invalid-worker error, with or without a client, returns no
\* generator and leaves the store alone: the id is not corrected.  A Build
\* whose builder has one id out of range and the other 0 does not fail on
\* it: the id is dropped, the identity is the default one without a client
\* and is allocated from the store with one.
InvalidIdsRejectedWhenBothSet ==
    [][\A g \in Gens :
         LET b == builder[g]
             outside == \/ b.datacenterID \notin 0 .. maxDatacenterID
                        \/ b.workerID \notin 0 .. maxWorkerID
         IN  (b.pc = "configured" /\ builder'[g].pc # "configured" /\ outside)
             => IF b.datacenterID # 0 /\ b.workerID # 0
                THEN /\ builder'[g].pc = "done"
                     /\ event'.kind \in {"invaliddatacenter", "invalidworker"}
                     /\ event'.gen = g
                     /\ alive' = alive
                     /\ node' = node
                     /\ counters' = counters
                ELSE IF b.client
                THEN /\ builder'[g].pc = "datacenter"
                     /\ event' = event
                     /\ alive' = alive
                ELSE /\ builder'[g].pc = "done"
                     /\ event'.kind = "built"
                     /\ g \in alive'
                     /\ node'[g].datacenterID = DefaultDatacenterID
                     /\ node'[g].workerID = DefaultWorkerID]_vars

\* C31 happens: a Build with the ids (32, 31) has failed, while the Build of
\* a builder with a client and the ids (32, 0) is at its second increment.
InvalidIdsRejectedWhenBothSetWitness ==
    /\ event.kind = "invaliddatacenter"
    /\ \E g \in Gens :
         /\ g # event.gen
         /\ builder[g].pc = "worker"
         /\ builder[g].datacenterID = maxDatacenterID + 1
         /\ builder[g].workerID = 0
         /\ builder[g].client

\* C32: a Build whose builder has exactly one of the two ids non-zero does
\* not use that id.  Without a client it returns in one step a generator of
\* the default identity (1, 1) and leaves the counters alone; with a client
\* it builds nothing in its first step and goes on to two increments: the
\* first raises the datacenter counter by one and keeps its value modulo 32,
\* the second raises the worker counter by one and returns a generator whose
\* datacenter id is the kept value and whose worker id is the worker
\* counter modulo 32 (or either increment fails and Build returns the
\* store's error and no generator).
ManualIdsAllOrNothing ==
    [][\A g \in Gens :
         LET b == builder[g]
         IN  ((b.datacenterID # ZeroValue) # (b.workerID # ZeroValue)
              /\ builder'[g] # b)
             => CASE b.pc = "configured" /\ ~b.client ->
                       /\ builder'[g].pc = "done"
                       /\ event'.kind = "built"
                       /\ event'.gen = g
                       /\ g \in alive'
                       /\ node'[g].datacenterID = DefaultDatacenterID
                       /\ node'[g].workerID = DefaultWorkerID
                       /\ counters' = counters
                  [] b.pc = "configured" /\ b.client ->
                       /\ builder'[g] = [b EXCEPT !.pc = "datacenter"]
                       /\ alive' = alive
                       /\ counters' = counters
                  [] b.pc = "datacenter" ->
                       \/ /\ builder'[g].pc = "done"
                          /\ event'.kind = "allocerror"
                          /\ alive' = alive
                          /\ counters' = counters
                       \/ /\ builder'[g].pc = "worker"
                          /\ counters' = [counters EXCEPT
                                            !.datacenter = @ + 1]
                          /\ builder'[g].allocated =
                                 counters'.datacenter % 32
                          /\ alive' = alive
                  [] b.pc = "worker" ->
                       /\ builder'[g].pc = "done"
                       /\ \/ /\ event'.kind = "allocerror"
                             /\ alive' = alive
                             /\ counters' = counters
                          \/ /\ event'.kind = "built"
                             /\ event'.gen = g
                             /\ g \in alive'
                             /\ counters' = [counters EXCEPT
                                               !.worker = @ + 1]
                             /\ node'[g].datacenterID = b.allocated
                             /\ node'[g].workerID = counters'.worker % 32
                             /\ redisClient'[g]
                  [] OTHER -> FALSE]_vars

\* C32 happens: a builder with a client, the datacenter id 31 and no worker
\* id has made its first increment and holds the datacenter id 1, while a
\* generator of the default identity without a client is alive.
ManualIdsAllOrNothingWitness ==
    \E g, h \in Gens :
       /\ builder[g].pc = "worker"
       /\ builder[g].client
       /\ builder[g].datacenterID = maxDatacenterID
       /\ builder[g].workerID = ZeroValue
       /\ builder[g].allocated = 1
       /\ h \in alive
       /\ ~redisClient[h]
       /\ node[h].datacenterID = DefaultDatacenterID
       /\ node[h].workerID = DefaultWorkerID

\* C33: when allocating Builds run one at a time on a store that had no
\* counter and none fails, both counters hold the number of Builds made
\* whenever no Build is running, and the Build that raises them to n returns
\* a generator with datacenter id and worker id both n modulo 32; every
\* generator alive has its datacenter id equal to its worker id, within
\* 0..31, so that the identities handed out are at most 32.
SequentialAllocationCycles ==
    /\ [][\A g \in Gens :
            g \in alive' \ alive
            => /\ counters'.datacenter = counters.datacenter
               /\ counters'.worker = counters.worker + 1
               /\ counters'.worker = counters'.datacenter
               /\ node'[g].datacenterID = counters'.worker % 32
               /\ node'[g].workerID = counters'.worker % 32]_vars
    /\ [](NoBuildRunning => counters.datacenter = counters.worker)
    /\ [](\A g \in alive :
            /\ node[g].datacenterID = node[g].workerID
            /\ node[g].datacenterID \in 0 .. 31)
    /\ [](Cardinality({<<k, k>> : k \in 0 .. 31}) = 32)

\* C33 happens: the 32nd Build returned a generator of identity (0, 0) and
\* the 33rd Build has just returned one of identity (1, 1).
SequentialAllocationCyclesWitness ==
    /\ event.kind = "built"
    /\ counters = [datacenter |-> 33, worker |-> 33]
    /\ node[event.gen].datacenterID = 1
    /\ node[event.gen].workerID = 1
    /\ \E h \in alive :
         /\ node[h].datacenterID = 0
         /\ node[h].workerID = 0

\* C34: an ID that a strict call returns with the timestamp T has its
\* sequence field among the ten values (T + a) mod (maxSequence + 1),
\* 0 <= a <= 9, and its record is in the store or has expired; every record
\* in the store has its sequence field among the ten values of its own
\* timestamp, so that the records that agree in every field above the
\* sequence (one identity, one millisecond), and with them the IDs issued
\* while their records last, are at most ten, whatever generators issue them.
StrictSequenceWindow ==
    /\ [][\A c \in Callers :
            (pc[c] = "reply" /\ pc'[c] = "idle" /\ event'.kind = "id")
            => /\ DecodeTimestamp(event'.id) = event'.timestamp
               /\ DecodeDatacenter(event'.id) = node[rs[c]].datacenterID
               /\ DecodeWorker(event'.id) = node[rs[c]].workerID
               /\ DecodeSequence(event'.id) \in
                      {(event'.timestamp + a) % (maxSequence + 1) :
                          a \in 0 .. 9}
               /\ event'.id \in Claimed' \cup gone']_vars
    /\ [](\A r \in Claimed :
            /\ DecodeSequence(r) \in
                   {(DecodeTimestamp(r) + a) % (maxSequence + 1) :
                       a \in 0 .. 9}
            /\ Cardinality({q \in Claimed :
                               Shr(q, workerShift) = Shr(r, workerShift)})
                   <= 10)

\* C34 happens: ten records of identity (1, 1) and the millisecond Epoch are
\* in the store, and a call of a generator of that identity has given up in
\* that millisecond after its tenth attempt.
StrictSequenceWindowWitness ==
    /\ clock = Epoch
    /\ event.kind = "exhausted"
    /\ event.attempts = 10
    /\ node[event.gen].datacenterID = 1
    /\ node[event.gen].workerID = 1
    /\ Cardinality({r \in Claimed : /\ DecodeTimestamp(r) = Epoch
                                    /\ DecodeDatacenter(r) = 1
                                    /\ DecodeWorker(r) = 1}) = 10

\* C35: a Generate call on a generator in strict mode with a client goes to
\* the retry loop and never to the locked section; each attempt takes the
\* clock as it reads it, whatever was read or returned before, and composes
\* its candidate with it; the call ends with an ID of the timestamp of its
\* last attempt, with the store's error or with exhaustion, never with the
\* rollback error; and no step of it writes lastTimestamp or sequence, so
\* that there is nothing to compare the clock with.
StrictIgnoresRollback ==
    [][\A c \in Callers :
         LET g == IF pc[c] = "idle" THEN rs'[c] ELSE rs[c]
         IN  (strictMode[g] /\ redisClient[g] /\ pc'[c] # pc[c])
             => /\ node'[g] = node[g]
                /\ mutex'[g] = mutex[g]
                /\ pc[c] = "idle" => pc'[c] = "attempt"
                /\ pc[c] = "attempt"
                   => /\ pc'[c] = "reply"
                      /\ timestamp'[c] = clock
                      /\ DecodeTimestamp(id'[c]) = clock
                /\ pc[c] = "reply"
                   => \/ pc'[c] = "attempt"
                      \/ /\ pc'[c] = "idle"
                         /\ event'.gen = g
                         /\ event'.kind \in {"id", "storeerror", "exhausted"}
                         /\ event'.kind # "rollback"
                         /\ event'.kind = "storeerror" <=> reply[c] = "error"
                         /\ event'.kind = "id" <=> reply[c] = "set"
                         /\ event'.kind = "id"
                            => /\ event'.id = id[c]
                               /\ DecodeTimestamp(event'.id) = timestamp[c]
                /\ pc[c] \in {"idle", "attempt", "reply"}]_vars

\* C35 happens: the strict generator 1 returned an ID, the clock was set
\* back, and generator 1 has returned an ID with a lower timestamp.
StrictIgnoresRollbackWitness ==
    /\ seen # NoId
    /\ strictMode[1]
    /\ event.kind = "id"
    /\ event.gen = 1
    /\ DecodeTimestamp(event.id) < DecodeTimestamp(seen)

\* C36: a turn of the wait loop takes the clock as it reads it and compares
\* it with lastTimestamp alone: when the clock reads lastTimestamp or less,
\* lower or not, the call keeps waiting, with the lock held, the sequence 0,
\* lastTimestamp as it was and no error; when it reads more, the call leaves
\* the loop with that timestamp, and the ID it then returns has that
\* timestamp and the sequence 0.  A call returns the rollback error only from
\* the check that follows its first clock read, which it reaches once.
WaitIgnoresRollback ==
    [][\A c \in Callers :
         LET g == rs[c]
             last == node[g].lastTimestamp
         IN  /\ (pc[c] = "spin" /\ <<pc[c], timestamp[c]>>' # <<pc[c], timestamp[c]>>)
                => /\ node[g].sequence = 0
                   /\ mutex[g] = c
                   /\ timestamp'[c] = clock
                   /\ pc'[c] = IF clock > last THEN "compose" ELSE "spin"
                   /\ node' = node
                   /\ mutex' = mutex
                   /\ event' = event
             /\ (pc[c] = "compose" /\ pc'[c] = "idle" /\ node[g].sequence = 0)
                => /\ timestamp[c] > last
                   /\ event'.kind = "id"
                   /\ DecodeTimestamp(event'.id) = timestamp[c]
                   /\ DecodeSequence(event'.id) = 0
                   /\ node'[g].lastTimestamp = timestamp[c]
             /\ (pc[c] # "idle" /\ pc'[c] = "idle" /\ event'.kind = "rollback")
                => /\ pc[c] = "check"
                   /\ timestamp[c] < last
             /\ (pc[c] # "check" /\ pc'[c] = "check") => pc[c] = "read"
             /\ (pc[c] # "read" /\ pc'[c] = "read") => pc[c] = "lock"
             /\ (pc[c] # "lock" /\ pc'[c] = "lock") => pc[c] = "idle"]_vars

\* C36 happens: a call waiting after a sequence overflow in the millisecond
\* Epoch + 1 has read the clock set back to Epoch and is still waiting, and
\* the clock now reads Epoch + 2.
WaitIgnoresRollbackWitness ==
    \E c \in Callers :
       /\ pc[c] = "spin"
       /\ node[rs[c]].lastTimestamp = Epoch + 1
       /\ timestamp[c] = Epoch
       /\ clock = Epoch + 2

====
